---- MODULE Spec2Model ----
(***************************************************************************)
(* Model of the ql adapter's session layer (ql/database.go): the Source    *)
(* session object, the three statement primitives with their implicit      *)
(* transaction wrapper, clone/Transaction, Setup/Open/Use/Close and        *)
(* collection resolution.  database/sql (sql.DB, sql.Tx) is the external   *)
(* collaborator: its handles are modelled as records in conns and txs,     *)
(* its failures as nondeterministic outcomes.                              *)
(***************************************************************************)
EXTENDS Naturals, Integers, Sequences, FiniteSets, TLC

VARIABLES sessions, conns, txs, store, nrows, lost, last

vars == <<sessions, conns, txs, store, nrows, lost, last>>

(* ------------------------------ bounds --------------------------------- *)
MaxSessions == 2
MaxConns == 3
MaxRows == 2
MaxLeaks == 1
MaxNames == 2
MaxClones == 1
MaxText == 10
MaxColumns == 2

(* ------------------------------ fixtures ------------------------------- *)
Nil == 0
DBNames == {"a"}
Settings == DBNames \cup {""}
\* Names are sequences of characters; "t" is the one table of the catalog
\* (__Table), with the columns listed in __Column, in the catalog's order.
Names == {<<"t">>, <<"m", " ", "x">>}
CatalogTables == {<<"t">>}
CatalogColumns ==
  <<[name |-> <<"i", "d">>, type |-> <<"i", "n", "t">>],
    [name |-> <<"N", "a", "m", "e">>, type |-> <<"S", "T", "R", "I", "N", "G">>]>>

(* What one call meets outside the program: the outcomes the engine        *)
(* produces for begin, statement and commit, and the value the environment *)
(* variable of the debug flag has during the call.                         *)
Outcome(b, e, c) == [b |-> b, e |-> e, c |-> c, env |-> ""]
AllOk == Outcome(TRUE, TRUE, TRUE)
Outcomes ==
  {AllOk, Outcome(FALSE, TRUE, TRUE), Outcome(TRUE, FALSE, TRUE), Outcome(TRUE, TRUE, FALSE),
   Outcome(TRUE, FALSE, FALSE)}

DebugOutcomes == {[o EXCEPT !.env = v] : o \in Outcomes, v \in {"", "1"}}

(* The store, connections and transactions as one value.                   *)
World == [conns |-> conns, txs |-> txs, store |-> store, nrows |-> nrows, lost |-> lost]

(* ------------------------------ Source --------------------------------- *)
\* type Source struct { config; session; collections; tx }
Source == [config |-> "", session |-> Nil, tx |-> Nil]

(* --------------------- database/sql: sql.DB, sql.Tx -------------------- *)
Ev(op, ok, t, c) == [op |-> op, ok |-> ok, tx |-> t, conn |-> c]

\* sql.Open: a new handle on the named database, or nil and an error.
sqlOpen(W, name, ok) ==
  IF ok
  THEN [W |-> [W EXCEPT !.conns = Append(@, [db |-> name, closed |-> FALSE, leaked |-> 0])],
        db |-> Len(W.conns) + 1, err |-> "nil"]
  ELSE [W |-> W, db |-> Nil, err |-> "ErrOpen"]

\* (*sql.DB).Close: the handle is closed whatever the error; on a handle
\* that is closed already it does nothing and returns nil.
sqlClose(W, c, ok) ==
  IF W.conns[c].closed
  THEN [W |-> W, err |-> "nil", ev |-> Ev("closed", TRUE, Nil, c)]
  ELSE [W |-> [W EXCEPT !.conns[c].closed = TRUE], err |-> IF ok THEN "nil" ELSE "ErrClose",
        ev |-> Ev("close", ok, Nil, c)]

\* (*sql.DB).Begin: fails on a closed handle; otherwise the engine decides.
Begin(W, c, ok) ==
  IF W.conns[c].closed \/ ~ok
  THEN [W |-> W, tx |-> Nil, err |-> "ErrBegin", ev |-> Ev("begin", FALSE, Nil, c)]
  ELSE [W |-> [W EXCEPT !.txs = Append(@, [conn |-> c, status |-> "open", writes |-> {},
                                           dropped |-> FALSE])],
        tx |-> Len(W.txs) + 1, err |-> "nil", ev |-> Ev("begin", TRUE, Len(W.txs) + 1, c)]

\* What a statement reads inside transaction t: the rows of t, the names
\* of the catalog's tables (all of them, or the one asked for), or the
\* columns of a table.
ReadRows(W, t, st) ==
  CASE st.table = "t" ->
         (IF W.txs[t].dropped THEN {} ELSE W.store[W.conns[W.txs[t].conn].db])
           \cup W.txs[t].writes
    [] st.table = "__Table" ->
         IF st.arg = <<>> THEN CatalogTables ELSE {st.arg[1]} \cap CatalogTables
    [] st.table = "__Column" -> IF st.arg[1] \in CatalogTables THEN CatalogColumns ELSE <<>>
    [] OTHER -> {}

\* (*sql.Tx).Exec / Query / QueryRow: the statement runs inside t.
TxStmt(W, t, st, ok) ==
  IF W.txs[t].status # "open"
  THEN [W |-> W, err |-> "ErrTxDone", rows |-> {}, ev |-> Ev("stmt", FALSE, t, W.txs[t].conn)]
  ELSE IF ~ok
  THEN [W |-> W, err |-> "ErrStmt", rows |-> {}, ev |-> Ev("stmt", FALSE, t, W.txs[t].conn)]
  ELSE IF st.type = "Insert"
  THEN [W |-> [W EXCEPT !.txs[t].writes = @ \cup {st.arg}, !.nrows = @ + 1],
        err |-> "nil", rows |-> {},
        ev |-> Ev("stmt", TRUE, t, W.txs[t].conn)]
  ELSE IF st.type = "DropDatabase"
  THEN [W |-> [W EXCEPT !.txs[t].writes = {}, !.txs[t].dropped = TRUE],
        err |-> "nil", rows |-> {},
        ev |-> Ev("stmt", TRUE, t, W.txs[t].conn)]
  ELSE [W |-> W, err |-> "nil", rows |-> ReadRows(W, t, st), ev |-> Ev("stmt", TRUE, t, W.txs[t].conn)]

\* (*sql.Tx).Commit: the transaction is finished either way; its writes
\* reach the store only when the commit succeeds.
Commit(W, t, ok) ==
  IF W.txs[t].status # "open"
  THEN [W |-> W, err |-> "ErrTxDone", ev |-> Ev("commit", FALSE, t, W.txs[t].conn)]
  ELSE IF ~ok
  THEN [W |-> [W EXCEPT !.txs[t].status = "failed"], err |-> "ErrCommit",
        ev |-> Ev("commit", FALSE, t, W.txs[t].conn)]
  ELSE [W |-> [W EXCEPT !.txs[t].status = "committed",
                        !.store[W.conns[W.txs[t].conn].db] =
                            (IF W.txs[t].dropped THEN {} ELSE @) \cup W.txs[t].writes],
        err |-> "nil", ev |-> Ev("commit", TRUE, t, W.txs[t].conn)]

\* (*sql.Tx).Rollback: the transaction is finished and its writes dropped.
Rollback(W, t, ok) ==
  IF W.txs[t].status # "open"
  THEN [W |-> W, err |-> "ErrTxDone", ev |-> Ev("rollback", FALSE, t, W.txs[t].conn)]
  ELSE [W |-> [W EXCEPT !.txs[t].status = IF ok THEN "rolledback" ELSE "failed"],
        err |-> IF ok THEN "nil" ELSE "ErrRollback", ev |-> Ev("rollback", ok, t, W.txs[t].conn)]

\* The value of the one element of S.  Below, { e(x) : x \in {v} } names the
\* value v as x in e, the way a local variable holds the result of a call.
The(S) == CHOOSE x \in S : TRUE

(* ------------------------- the text of a query ------------------------ *)
\* A statement, as far as its text goes: a sequence of positions, each a
\* character of the layout ("c") or a bound value ("v").  Compile renders a
\* bound value as the placeholder "?"; the values are the arguments.
Statements == UNION {[1..n -> {"c", "v"}] : n \in 0..MaxText}
Compile(stmt) == [i \in 1..Len(stmt) |-> IF stmt[i] = "v" THEN "?" ELSE stmt[i]]
Args(stmt) == SelectSeq(stmt, LAMBDA x : x = "v")

Digits == <<"0", "1", "2", "3", "4", "5", "6", "7", "8", "9">>
\* The decimal digits of n, as %d prints them.
RECURSIVE Itoa(_)
Itoa(n) == IF n < 10 THEN <<Digits[n + 1]>> ELSE Itoa(n \div 10) \o <<Digits[(n % 10) + 1]>>

\* fmt.Sprintf(`$%d`, n)
Sprintf(n) == <<"$">> \o Itoa(n)

\* strings.Replace(s, old, new, 1) for a one-character old: the first
\* occurrence is replaced, a text without one is returned as it is.
Replace(s, old, new) ==
  The({IF i = 0 THEN s ELSE SubSeq(s, 1, i - 1) \o new \o SubSeq(s, i + 1, Len(s))
       : i \in {IF \E j \in 1..Len(s) : s[j] = old
                THEN CHOOSE j \in 1..Len(s) : s[j] = old /\ \A k \in 1..(j - 1) : s[k] # old
                ELSE 0}})

\* The loop numbering from zero: $0, $1, ...
RECURSIVE Renumber_FromZero(_, _, _)
Renumber_FromZero(query, i, l) ==
  IF i < l THEN Renumber_FromZero(Replace(query, "?", Sprintf(i)), i + 1, l) ELSE query

\* for i := 0; i < l; i++ { query = strings.Replace(query, `?`, $i+1, 1) }
RECURSIVE Renumber(_, _, _)
Renumber(query, i, l) ==
  IF i < l THEN Renumber(Replace(query, "?", Sprintf(i + 1)), i + 1, l) ELSE query

\* The text each primitive passes to the engine and to the debug hook.
doExecQuery(stmt, args) == Renumber(Compile(stmt), 0, Len(args))
doQueryQuery(stmt, args) == Renumber(Compile(stmt), 0, Len(args))
doQueryRowQuery(stmt, args) == Renumber(Compile(stmt), 0, Len(args))

(* --------------------------- the primitives ---------------------------- *)
Ret(W, io, res, err, rows) == [W |-> W, io |-> io, res |-> res, err |-> err, rows |-> rows]

\* debugEnabled: os.Getenv(db.EnvEnableDebug) != ""
debugEnabled(env) == env # ""

\* if debugEnabled() == true { sqlutil.DebugQuery(query, args) }: the report,
\* made before anything is run; R is what the rest of the call does.
DebugQuery(self, o, R) ==
  IF debugEnabled(o.env)
  THEN [R EXCEPT !.io = <<Ev("debug", TRUE, Nil, self.session)>> \o @]
  ELSE R

\* doExecAuto with the commit's error dropped.
doExecAuto_CommitIgnored(W, self, st, o) ==
  The({IF B.err # "nil" THEN Ret(B.W, <<B.ev>>, "nil", B.err, {})
       ELSE The({IF X.err # "nil" THEN Ret(X.W, <<B.ev, X.ev>>, "nil", X.err, {})
                 ELSE The({Ret(C.W, <<B.ev, X.ev, C.ev>>, "Result", "nil", X.rows)
                           : C \in {Commit(X.W, B.tx, o.c)}})
                 : X \in {TxStmt(B.W, B.tx, st, o.e)}})
       : B \in {Begin(W, self.session, o.b)}})

\* doExec, self.tx == nil: begin, exec, commit.
doExecAuto(W, self, st, o) ==
  The({IF B.err # "nil" THEN Ret(B.W, <<B.ev>>, "nil", B.err, {})
       ELSE The({IF X.err # "nil" THEN Ret(X.W, <<B.ev, X.ev>>, "nil", X.err, {})
                 ELSE The({IF C.err # "nil"
                           THEN Ret(C.W, <<B.ev, X.ev, C.ev>>, "nil", C.err, {})
                           ELSE Ret(C.W, <<B.ev, X.ev, C.ev>>, "Result", "nil", X.rows)
                           : C \in {Commit(X.W, B.tx, o.c)}})
                 : X \in {TxStmt(B.W, B.tx, st, o.e)}})
       : B \in {Begin(W, self.session, o.b)}})

\* doExecTx committing after each statement.
doExecTx_Commits(W, self, st, o) ==
  The({The({Ret(C.W, <<X.ev, C.ev>>, IF X.err = "nil" THEN "Result" ELSE "nil", X.err, X.rows)
            : C \in {Commit(X.W, self.tx, o.c)}})
       : X \in {TxStmt(W, self.tx, st, o.e)}})

\* doExecTx running the statement on the session's handle, outside the
\* active transaction.
doExecTx_OnSession(W, self, st, o) == doExecAuto(W, self, st, o)

\* doExec, self.tx != nil: return self.tx.Exec(query, args...)
doExecTx(W, self, st, o) ==
  The({Ret(X.W, <<X.ev>>, IF X.err = "nil" THEN "Result" ELSE "nil", X.err, X.rows)
       : X \in {TxStmt(W, self.tx, st, o.e)}})

\* doExec ending the call after the report when the debug flag is set.
doExec_DebugOnly(W, self, st, o) ==
  IF self.session = Nil THEN Ret(W, <<>>, "nil", "ErrNotConnected", {})
  ELSE IF debugEnabled(o.env) THEN DebugQuery(self, o, Ret(W, <<>>, "nil", "nil", {}))
  ELSE IF self.tx = Nil THEN doExecAuto(W, self, st, o)
  ELSE doExecTx(W, self, st, o)

doExec(W, self, st, o) ==
  IF self.session = Nil THEN Ret(W, <<>>, "nil", "ErrNotConnected", {})
  ELSE DebugQuery(self, o, IF self.tx = Nil THEN doExecAuto(W, self, st, o)
                           ELSE doExecTx(W, self, st, o))

\* doQueryAuto handing the cursor back together with the commit's error.
doQueryAuto_RowsKept(W, self, st, o) ==
  The({IF B.err # "nil" THEN Ret(B.W, <<B.ev>>, "nil", B.err, {})
       ELSE The({IF X.err # "nil" THEN Ret(X.W, <<B.ev, X.ev>>, "nil", X.err, {})
                 ELSE The({Ret(C.W, <<B.ev, X.ev, C.ev>>, "Rows", C.err, X.rows)
                           : C \in {Commit(X.W, B.tx, o.c)}})
                 : X \in {TxStmt(B.W, B.tx, st, o.e)}})
       : B \in {Begin(W, self.session, o.b)}})

\* doQuery, self.tx == nil: begin, query, commit.
doQueryAuto(W, self, st, o) ==
  The({IF B.err # "nil" THEN Ret(B.W, <<B.ev>>, "nil", B.err, {})
       ELSE The({IF X.err # "nil" THEN Ret(X.W, <<B.ev, X.ev>>, "nil", X.err, {})
                 ELSE The({IF C.err # "nil"
                           THEN Ret(C.W, <<B.ev, X.ev, C.ev>>, "nil", C.err, {})
                           ELSE Ret(C.W, <<B.ev, X.ev, C.ev>>, "Rows", "nil", X.rows)
                           : C \in {Commit(X.W, B.tx, o.c)}})
                 : X \in {TxStmt(B.W, B.tx, st, o.e)}})
       : B \in {Begin(W, self.session, o.b)}})

\* doQuery, self.tx != nil: return self.tx.Query(query, args...)
doQueryTx(W, self, st, o) ==
  The({Ret(X.W, <<X.ev>>, IF X.err = "nil" THEN "Rows" ELSE "nil", X.err, X.rows)
       : X \in {TxStmt(W, self.tx, st, o.e)}})

doQuery(W, self, st, o) ==
  IF self.session = Nil THEN Ret(W, <<>>, "nil", "ErrNotConnected", {})
  ELSE DebugQuery(self, o, IF self.tx = Nil THEN doQueryAuto(W, self, st, o)
                           ELSE doQueryTx(W, self, st, o))

\* A *sql.Row carries the statement's error until it is scanned.
Row(X) == IF X.err = "nil" THEN "Row" ELSE "RowWithError"

\* doQueryRowAuto going on to the commit after a failed begin.
doQueryRowAuto_BeginIgnored(W, self, st, o) ==
  The({IF B.err # "nil"
       THEN Ret(B.W, <<B.ev, Ev("commit", FALSE, Nil, self.session)>>, "nil", B.err, {})
       ELSE The({The({IF C.err # "nil"
                      THEN Ret(C.W, <<B.ev, X.ev, C.ev>>, "nil", C.err, {})
                      ELSE Ret(C.W, <<B.ev, X.ev, C.ev>>, Row(X), "nil", X.rows)
                      : C \in {Commit(X.W, B.tx, o.c)}})
                 : X \in {TxStmt(B.W, B.tx, st, o.e)}})
       : B \in {Begin(W, self.session, o.b)}})

\* doQueryRow, self.tx == nil: tx.QueryRow returns no error, so the err that
\* is tested after it is still the nil of the successful Begin, and the
\* commit follows whatever the statement did.
doQueryRowAuto(W, self, st, o) ==
  The({IF B.err # "nil" THEN Ret(B.W, <<B.ev>>, "nil", B.err, {})
       ELSE The({IF B.err # "nil" THEN Ret(X.W, <<B.ev, X.ev>>, "nil", B.err, {})
                 ELSE The({IF C.err # "nil"
                           THEN Ret(C.W, <<B.ev, X.ev, C.ev>>, "nil", C.err, {})
                           ELSE Ret(C.W, <<B.ev, X.ev, C.ev>>, Row(X), "nil", X.rows)
                           : C \in {Commit(X.W, B.tx, o.c)}})
                 : X \in {TxStmt(B.W, B.tx, st, o.e)}})
       : B \in {Begin(W, self.session, o.b)}})

\* doQueryRow, self.tx != nil: return self.tx.QueryRow(query, args...), nil
doQueryRowTx(W, self, st, o) ==
  The({Ret(X.W, <<X.ev>>, Row(X), "nil", X.rows) : X \in {TxStmt(W, self.tx, st, o.e)}})

doQueryRow(W, self, st, o) ==
  IF self.session = Nil THEN Ret(W, <<>>, "nil", "ErrNotConnected", {})
  ELSE DebugQuery(self, o, IF self.tx = Nil THEN doQueryRowAuto(W, self, st, o)
                           ELSE doQueryRowTx(W, self, st, o))

(* ------------------------- session life cycle -------------------------- *)
\* Open: connect using the stored settings.
Open(W, self, ok) ==
  IF self.config = ""
  THEN [W |-> W, self |-> self, err |-> "ErrMissingDatabaseName"]
  ELSE The({[W |-> O.W, self |-> [self EXCEPT !.session = O.db], err |-> O.err]
            : O \in {sqlOpen(W, self.config, ok)}})

\* Setup: store the settings (and an empty collections map), then Open.
Setup(W, self, config, ok) == Open(W, [self EXCEPT !.config = config], ok)

\* Use: change the configured database, then Open.
Use(W, self, database, ok) == Open(W, [self EXCEPT !.config = database], ok)

\* Close failing on a handle that is closed already.
Close_Once(W, self, ok) ==
  IF self.session # Nil
  THEN The({[W |-> C.W, self |-> self, io |-> <<C.ev>>,
             err |-> IF W.conns[self.session].closed THEN "ErrClose" ELSE C.err]
            : C \in {sqlClose(W, self.session, ok)}})
  ELSE [W |-> W, self |-> self, err |-> "nil", io |-> <<>>]

\* Close: close the handle when there is one; the field is left as it is.
Close(W, self, ok) ==
  IF self.session # Nil
  THEN The({[W |-> C.W, self |-> self, err |-> C.err, io |-> <<C.ev>>]
            : C \in {sqlClose(W, self.session, ok)}})
  ELSE [W |-> W, self |-> self, err |-> "nil", io |-> <<>>]

\* clone handing back a session on the original's handle and transaction.
clone_Shared(W, self, ok1, ok2) ==
  The({The({IF O.err # "nil"
            THEN [W |-> O.W, has |-> FALSE, src |-> Source, err |-> O.err]
            ELSE [W |-> O.W, has |-> TRUE, src |-> self, err |-> "nil"]
            : O \in {Open(S.W, S.self, ok2)}})
       : S \in {Setup(W, Source, self.config, ok1)}})

\* clone: a fresh Source, Setup with the same settings (its error is not
\* looked at), then Open.
clone(W, self, ok1, ok2) ==
  The({The({IF O.err # "nil"
            THEN [W |-> O.W, has |-> FALSE, src |-> Source, err |-> O.err]
            ELSE [W |-> O.W, has |-> TRUE, src |-> O.self, err |-> "nil"]
            : O \in {Open(S.W, S.self, ok2)}})
       : S \in {Setup(W, Source, self.config, ok1)}})

\* Transaction beginning on the session's own handle and binding the
\* session itself.
Transaction_OnSelf(W, self, ok1, ok2, b) ==
  The({IF K.err # "nil"
       THEN [W |-> K.W, self |-> self, has |-> FALSE, clone |-> Source, err |-> K.err]
       ELSE The({IF B.err # "nil"
                 THEN [W |-> B.W, self |-> self, has |-> FALSE, clone |-> Source,
                       err |-> B.err]
                 ELSE [W |-> B.W, self |-> [self EXCEPT !.tx = B.tx], has |-> TRUE,
                       clone |-> [K.src EXCEPT !.tx = B.tx], err |-> "nil"]
                 : B \in {Begin(K.W, IF self.session = Nil THEN K.src.session
                                     ELSE self.session, b)}})
       : K \in {clone(W, self, ok1, ok2)}})

\* Transaction: clone, begin on the clone's handle, bind the clone to it.
Transaction(W, self, ok1, ok2, b) ==
  The({IF K.err # "nil"
       THEN [W |-> K.W, self |-> self, has |-> FALSE, clone |-> Source, err |-> K.err]
       ELSE The({IF B.err # "nil"
                 THEN [W |-> B.W, self |-> self, has |-> FALSE, clone |-> Source,
                       err |-> B.err]
                 ELSE [W |-> B.W, self |-> self, has |-> TRUE,
                       clone |-> [K.src EXCEPT !.tx = B.tx], err |-> "nil"]
                 : B \in {Begin(K.W, K.src.session, b)}})
       : K \in {clone(W, self, ok1, ok2)}})

\* (*Tx).Commit and (*Tx).Rollback of the transaction handle: they end the
\* clone's active transaction.
TxCommit(W, self, ok) == Commit(W, self.tx, ok)

TxRollback(W, self, ok) == Rollback(W, self.tx, ok)

(* --------------------------- Drop, Collections ------------------------- *)
DropStmt(database) == [type |-> "DropDatabase", table |-> "", arg |-> <<database>>]
CollectionsStmt == [type |-> "Select", table |-> "__Table", arg |-> <<>>]

\* Drop: the statement goes through doQuery; the cursor it returns is
\* discarded (closed counts the cursors the call closes).
Drop(W, self, o) ==
  The({[W |-> Q.W, err |-> Q.err, io |-> Q.io, res |-> "nil", closed |-> 0]
       : Q \in {doQuery(W, self, DropStmt(self.config), o)}})

\* Collections: the names of the catalog's tables; the cursor is closed
\* when the call returns.
Collections(W, self, o) ==
  The({IF Q.err # "nil"
       THEN [W |-> Q.W, err |-> Q.err, io |-> Q.io, res |-> "nil", closed |-> 0]
       ELSE [W |-> Q.W, err |-> "nil", io |-> Q.io, res |-> Q.rows, closed |-> 1]
       : Q \in {doQuery(W, self, CollectionsStmt, o)}})

(* ------------------------ collection resolution ------------------------ *)
RECURSIVE IndexOf(_, _, _)
IndexOf(name, ch, i) ==
  IF i > Len(name) THEN 0
  ELSE IF name[i] = ch THEN i
  ELSE IndexOf(name, ch, i + 1)

\* strings.SplitN(name, " ", 2)[0]
FirstChunk(name) ==
  LET i == IndexOf(name, " ", 1) IN
  IF i = 0 THEN name ELSE SubSeq(name, 1, i - 1)

ExistsStmt(name) == [type |-> "Select", table |-> "__Table", arg |-> <<name>>]
ColumnsStmt(name) == [type |-> "Select", table |-> "__Column", arg |-> <<name>>]

Query(kind, name, err) == [q |-> kind, name |-> name, err |-> err]

\* tableExists without the test of rows.Next().
RECURSIVE tableExists_NoRowTest(_, _, _, _)
tableExists_NoRowTest(W, self, names, os) ==
  IF names = <<>> THEN [W |-> W, err |-> "nil", io |-> <<>>, cat |-> <<>>]
  ELSE The({IF Q.err # "nil"
            THEN [W |-> Q.W, err |-> "ErrCollectionDoesNotExists", io |-> Q.io,
                  cat |-> <<[q |-> "exists", name |-> Head(names), err |-> Q.err]>>]
            ELSE The({[W |-> T.W, err |-> T.err, io |-> Q.io \o T.io,
                       cat |-> <<[q |-> "exists", name |-> Head(names), err |-> Q.err]>>
                               \o T.cat]
                      : T \in {tableExists_NoRowTest(Q.W, self, Tail(names), Tail(os))}})
            : Q \in {doQuery(W, self, ExistsStmt(Head(names)), Head(os))}})

\* tableExists: one existence query per name; any error of the query and an
\* empty result both give ErrCollectionDoesNotExists.  The cursor of each
\* query that returned one is closed when tableExists returns (closed counts
\* them).
RECURSIVE tableExists(_, _, _, _)
tableExists(W, self, names, os) ==
  IF names = <<>> THEN [W |-> W, err |-> "nil", io |-> <<>>, cat |-> <<>>, closed |-> 0]
  ELSE The({IF Q.err # "nil"
            THEN [W |-> Q.W, err |-> "ErrCollectionDoesNotExists", io |-> Q.io,
                  cat |-> <<Query("exists", Head(names), Q.err)>>, closed |-> 0]
            ELSE IF Q.rows = {}
            THEN [W |-> Q.W, err |-> "ErrCollectionDoesNotExists", io |-> Q.io,
                  cat |-> <<Query("exists", Head(names), Q.err)>>, closed |-> 1]
            ELSE The({[W |-> T.W, err |-> T.err, io |-> Q.io \o T.io,
                       cat |-> <<Query("exists", Head(names), Q.err)>> \o T.cat,
                       closed |-> 1 + T.closed]
                      : T \in {tableExists(Q.W, self, Tail(names), Tail(os))}})
            : Q \in {doQuery(W, self, ExistsStmt(Head(names)), Head(os))}})

\* strings.ToLower: the upper-case letters become lower-case ones.
Upper ==
  <<"A", "B", "C", "D", "E", "F", "G", "H", "I", "J", "K", "L", "M",
    "N", "O", "P", "Q", "R", "S", "T", "U", "V", "W", "X", "Y", "Z">>
Lower ==
  <<"a", "b", "c", "d", "e", "f", "g", "h", "i", "j", "k", "l", "m",
    "n", "o", "p", "q", "r", "s", "t", "u", "v", "w", "x", "y", "z">>
LowerChar(c) ==
  IF \E i \in 1..26 : Upper[i] = c THEN Lower[CHOOSE i \in 1..26 : Upper[i] = c] ELSE c
ToLower(s) == [i \in 1..Len(s) |-> LowerChar(s[i])]

\* The switch without the case of rune.
Kind_NoRune(dtype) ==
  CASE dtype = <<"i", "n", "t">> -> "Int"
    [] dtype = <<"i", "n", "t", "8">> -> "Int8"
    [] dtype = <<"i", "n", "t", "1", "6">> -> "Int16"
    [] dtype = <<"i", "n", "t", "3", "2">> -> "Int32"
    [] dtype = <<"i", "n", "t", "6", "4">> -> "Int64"
    [] dtype = <<"u", "i", "n", "t">> -> "Uint"
    [] dtype = <<"u", "i", "n", "t", "8">> -> "Uint8"
    [] dtype = <<"u", "i", "n", "t", "1", "6">> -> "Uint16"
    [] dtype = <<"u", "i", "n", "t", "3", "2">> -> "Uint32"
    [] dtype = <<"u", "i", "n", "t", "6", "4">> -> "Uint64"
    [] dtype = <<"f", "l", "o", "a", "t", "6", "4">> -> "Float64"
    [] dtype = <<"f", "l", "o", "a", "t", "3", "2">> -> "Float32"
    [] dtype = <<"t", "i", "m", "e">> -> "Struct"
    [] OTHER -> "String"

\* The switch on the lower-cased type name; timeType is the kind of
\* time.Time, a struct.
Kind(dtype) ==
  CASE dtype = <<"i", "n", "t">> -> "Int"
    [] dtype = <<"i", "n", "t", "8">> -> "Int8"
    [] dtype = <<"i", "n", "t", "1", "6">> -> "Int16"
    [] dtype \in {<<"i", "n", "t", "3", "2">>, <<"r", "u", "n", "e">>} -> "Int32"
    [] dtype = <<"i", "n", "t", "6", "4">> -> "Int64"
    [] dtype = <<"u", "i", "n", "t">> -> "Uint"
    [] dtype = <<"u", "i", "n", "t", "8">> -> "Uint8"
    [] dtype = <<"u", "i", "n", "t", "1", "6">> -> "Uint16"
    [] dtype = <<"u", "i", "n", "t", "3", "2">> -> "Uint32"
    [] dtype = <<"u", "i", "n", "t", "6", "4">> -> "Uint64"
    [] dtype = <<"f", "l", "o", "a", "t", "6", "4">> -> "Float64"
    [] dtype = <<"f", "l", "o", "a", "t", "3", "2">> -> "Float32"
    [] dtype = <<"t", "i", "m", "e">> -> "Struct"
    [] OTHER -> "String"

\* col.ColumnTypes[key] = ctype
Put(m, key, ctype) == [k \in (DOMAIN m) \cup {key} |-> IF k = key THEN ctype ELSE m[k]]

\* The loop over the columns storing each kind under the catalog's own
\* spelling of the column name.
RECURSIVE ColumnTypesLoop_RawKeys(_, _)
ColumnTypesLoop_RawKeys(columns_t, m) ==
  IF columns_t = <<>> THEN m
  ELSE ColumnTypesLoop_RawKeys(Tail(columns_t),
                               Put(m, Head(columns_t).name, Kind(ToLower(Head(columns_t).type))))

\* for _, column := range columns_t: lower-case name and type, resolve the
\* kind, store it under the lower-cased name.
RECURSIVE ColumnTypesLoop(_, _)
ColumnTypesLoop(columns_t, m) ==
  IF columns_t = <<>> THEN m
  ELSE ColumnTypesLoop(Tail(columns_t),
                       Put(m, ToLower(Head(columns_t).name), Kind(ToLower(Head(columns_t).type))))

\* make(map[string]reflect.Kind, len(columns_t)), then the loop.
ColumnTypes(columns_t) == ColumnTypesLoop(columns_t, <<>>)

\* A later lookup of a column in ColumnTypes, by the lower-cased name.
Lookup(types, name) == types[ToLower(name)]

NoTable == [has |-> FALSE, names |-> <<>>, PrimaryKey |-> "", ColumnTypes |-> <<>>]

\* The loop of Collection over the names: existence check, column query,
\* FetchRows, type resolution; the first error ends the call.
RECURSIVE CollectionLoop(_, _, _, _, _, _)
CollectionLoop(W, self, names, os, fetch, col) ==
  IF names = <<>> THEN [W |-> W, col |-> col, err |-> "nil", io |-> <<>>, cat |-> <<>>]
  ELSE
  The({The({IF T.err # "nil"
            THEN [W |-> T.W, col |-> NoTable, err |-> T.err, io |-> T.io, cat |-> T.cat]
            ELSE
            The({IF Q.err # "nil"
                 THEN [W |-> Q.W, col |-> NoTable, err |-> Q.err, io |-> T.io \o Q.io,
                       cat |-> T.cat \o <<Query("columns", name, Q.err)>>]
                 ELSE IF ~fetch
                 THEN [W |-> Q.W, col |-> NoTable, err |-> "ErrFetchRows",
                       io |-> T.io \o Q.io,
                       cat |-> T.cat \o <<Query("columns", name, Q.err)>>]
                 ELSE
                 The({[W |-> L.W, col |-> L.col, err |-> L.err,
                       io |-> T.io \o Q.io \o L.io,
                       cat |-> T.cat \o <<Query("columns", name, Q.err)>> \o L.cat]
                      : L \in {CollectionLoop(Q.W, self, Tail(names), Tail(Tail(os)), fetch,
                                              [col EXCEPT !.ColumnTypes =
                                                              ColumnTypes(Q.rows)])}})
                 : Q \in {doQuery(T.W, self, ColumnsStmt(name), os[2])}})
            : T \in {tableExists(W, self, <<name>>, <<os[1]>>)}})
       : name \in {FirstChunk(Head(names))}})

Collection(W, self, names, os, fetch) ==
  IF Len(names) = 0
  THEN [W |-> W, col |-> NoTable, err |-> "ErrMissingCollectionName", io |-> <<>>,
        cat |-> <<>>]
  ELSE CollectionLoop(W, self, names, os, fetch,
                      [has |-> TRUE, names |-> names, PrimaryKey |-> "id",
                       ColumnTypes |-> <<>>])

(* ------------------------------ actions -------------------------------- *)
\* The handles a call leaves unreferenced are dropped with its locals: a
\* transaction no session is bound to is forgotten; one that was neither
\* committed nor rolled back stays open on its connection, and writes that
\* were not committed are lost.
Referenced(ss, t) == \E k \in 1..Len(ss) : ss[k].tx = t
Dropped(W, ss) == {t \in 1..Len(W.txs) : ~Referenced(ss, t)}
Forget(W, ss) ==
  LET D == Dropped(W, ss)
      Leaks(c) == Cardinality({t \in D : W.txs[t].conn = c /\ W.txs[t].status = "open"}) IN
  [W EXCEPT !.txs = SubSeq(@, 1, Len(@) - Cardinality(D)),
            !.conns = [c \in 1..Len(@) |-> [@[c] EXCEPT !.leaked = @ + Leaks(c)]],
            !.lost = @ \cup UNION {W.txs[t].writes : t \in {d \in D : W.txs[d].status # "committed"}}]

RECURSIVE SumLeaked(_, _)
SumLeaked(cs, n) == IF n = 0 THEN 0 ELSE cs[n].leaked + SumLeaked(cs, n - 1)
Leaked(W) == SumLeaked(W.conns, Len(W.conns))

Fits(W) ==
  /\ Len(W.conns) <= MaxConns
  /\ W.nrows <= MaxRows
  /\ Leaked(W) <= MaxLeaks

\* The new state after a call, with at most n sessions.
InstallUpTo(W0, ss, n) ==
  \E W \in {Forget(W0, ss)} :
  /\ Len(ss) <= n
  /\ Fits(W)
  /\ sessions' = ss
  /\ conns' = W.conns
  /\ txs' = W.txs
  /\ store' = W.store
  /\ nrows' = W.nrows
  /\ lost' = W.lost

Install(W0, ss) ==
  InstallUpTo(W0, ss, IF Len(sessions) > MaxSessions THEN Len(sessions) ELSE MaxSessions)

\* An insert carries its row: who issued it, and a serial number.
Insert(s) == [type |-> "Insert", table |-> "t", arg |-> <<s, nrows + 1>>]
Select == [type |-> "Select", table |-> "t", arg |-> <<>>]

\* The record of the latest call: what it did on the engine (io, cat, wrote)
\* and what it returned (res, err).
Called(op, s, args, W, io, res, err, cat) ==
  [op |-> op, s |-> s, args |-> args, io |-> io, res |-> res, err |-> err, cat |-> cat,
   wrote |-> {<<s, n>> : n \in (nrows + 1)..W.nrows}]

\* A call of doExec meeting one of the outcomes os.
doExecWith(s, os) ==
  \E o \in os :
    \E R \in {doExec(World, sessions[s], Insert(s), o)} :
    /\ Install(R.W, sessions)
    /\ last' = Called("doExec", s, <<>>, R.W, R.io, R.res, R.err, <<>>)

Call_doExec(s) == doExecWith(s, Outcomes)
Debug_doExec(s) == doExecWith(s, DebugOutcomes)

\* A call of doQuery meeting one of the outcomes os.
doQueryWith(s, os) ==
  \E o \in os :
    \E R \in {doQuery(World, sessions[s], Select, o)} :
    /\ Install(R.W, sessions)
    /\ last' = Called("doQuery", s, <<>>, R.W, R.io, R.res, R.err, <<>>)

Call_doQuery(s) == doQueryWith(s, Outcomes)
Debug_doQuery(s) == doQueryWith(s, DebugOutcomes)

\* A call of doQueryRow meeting one of the outcomes os.
doQueryRowWith(s, os) ==
  \E o \in os :
    \E R \in {doQueryRow(World, sessions[s], Select, o)} :
    /\ Install(R.W, sessions)
    /\ last' = Called("doQueryRow", s, <<>>, R.W, R.io, R.res, R.err, <<>>)

Call_doQueryRow(s) == doQueryRowWith(s, Outcomes)
Debug_doQueryRow(s) == doQueryRowWith(s, DebugOutcomes)

Life(op, s, Rs) ==
  \E R \in Rs :
    /\ Install(R.W, [sessions EXCEPT ![s] = R.self])
    /\ last' = Called(op, s, <<>>, R.W, <<>>, "nil", R.err, <<>>)

Call_Setup(s) ==
  \E config \in Settings, ok \in BOOLEAN :
    Life("Setup", s, {Setup(World, sessions[s], config, ok)})

Call_Open(s) == \E ok \in BOOLEAN : Life("Open", s, {Open(World, sessions[s], ok)})

Call_Use(s) ==
  \E database \in Settings, ok \in BOOLEAN :
    Life("Use", s, {Use(World, sessions[s], database, ok)})

Call_Close(s) ==
  \E ok \in BOOLEAN :
    \E R \in {Close(World, sessions[s], ok)} :
    /\ Install(R.W, [sessions EXCEPT ![s] = R.self])
    /\ last' = Called("Close", s, <<>>, R.W, R.io, "nil", R.err, <<>>)

Call_Clone(s) ==
  \E ok1, ok2 \in BOOLEAN :
    \E R \in {clone(World, sessions[s], ok1, ok2)} :
    /\ InstallUpTo(R.W, IF R.has THEN Append(sessions, R.src) ELSE sessions,
                   MaxSessions + MaxClones)
    /\ last' = Called("Clone", s, <<>>, R.W, <<>>, IF R.has THEN "Source" ELSE "nil", R.err, <<>>)

Call_Transaction(s) ==
  \E ok1, ok2, b \in BOOLEAN :
    \E R \in {Transaction(World, sessions[s], ok1, ok2, b)} :
    /\ Install(R.W, IF R.has THEN Append([sessions EXCEPT ![s] = R.self], R.clone)
                     ELSE [sessions EXCEPT ![s] = R.self])
    /\ last' = Called("Transaction", s, <<>>, R.W, <<>>, IF R.has THEN "Tx" ELSE "nil", R.err, <<>>)

Call_TxCommit(s) ==
  /\ sessions[s].tx # Nil
  /\ \E ok \in BOOLEAN :
       \E R \in {TxCommit(World, sessions[s], ok)} :
       /\ Install(R.W, sessions)
       /\ last' = Called("TxCommit", s, <<>>, R.W, <<R.ev>>, "nil", R.err, <<>>)

Call_TxRollback(s) ==
  /\ sessions[s].tx # Nil
  /\ \E ok \in BOOLEAN :
       \E R \in {TxRollback(World, sessions[s], ok)} :
       /\ Install(R.W, sessions)
       /\ last' = Called("TxRollback", s, <<>>, R.W, <<R.ev>>, "nil", R.err, <<>>)

\* The names of one Collection call, and the outcomes of its queries: at
\* most one of them meets a failure, the call ending at the first error.
NameLists == UNION {[1..n -> Names] : n \in 0..MaxNames}
Plan(n, k, o, fetch) ==
  [os |-> [j \in 1..(2 * n) |-> IF j = k THEN o ELSE AllOk], fetch |-> fetch]
Faults(n) ==
  {Plan(n, k, o, TRUE) : k \in 1..(2 * n), o \in Outcomes \ {Outcome(TRUE, FALSE, FALSE)}}
    \cup {Plan(n, 0, AllOk, FALSE)}

Call_Collection(s) ==
  \E names \in NameLists :
    \E p \in Faults(Len(names)) :
      \E R \in {Collection(World, sessions[s], names, p.os, p.fetch)} :
      /\ Install(R.W, sessions)
      /\ last' = Called("Collection", s, names, R.W, R.io, R.col, R.err, R.cat)

\* The record of a call that obtains cursors, with the number it closed.
CalledClosing(op, s, args, R) ==
  [op |-> op, s |-> s, args |-> args, io |-> R.io, res |-> R.res, err |-> R.err,
   cat |-> <<>>, wrote |-> {}, closed |-> R.closed]

Call_Drop(s) ==
  \E o \in Outcomes :
    \E R \in {Drop(World, sessions[s], o)} :
    /\ Install(R.W, sessions)
    /\ last' = CalledClosing("Drop", s, <<>>, R)

Call_Collections(s) ==
  \E o \in Outcomes :
    \E R \in {Collections(World, sessions[s], o)} :
    /\ Install(R.W, sessions)
    /\ last' = CalledClosing("Collections", s, <<>>, R)

\* The outcomes of the queries of one tableExists: at most one meets a
\* failure.
TableFaults(n) == {[j \in 1..n |-> IF j = k THEN o ELSE AllOk] : k \in 0..n, o \in Outcomes}

Call_tableExists(s) ==
  \E names \in NameLists :
    \E os \in TableFaults(Len(names)) :
      \E R \in {tableExists(World, sessions[s], names, os)} :
      /\ Install(R.W, sessions)
      /\ last' = CalledClosing("tableExists", s, names, 
                                [io |-> R.io, res |-> "nil", err |-> R.err,
                                 closed |-> R.closed])

Init ==
  /\ sessions = <<Source>>
  /\ conns = <<>>
  /\ txs = <<>>
  /\ store = [d \in DBNames |-> {}]
  /\ nrows = 0
  /\ lost = {}
  /\ last = [op |-> "init", s |-> 1, args |-> <<>>, io |-> <<>>, res |-> "nil", err |-> "nil", cat |-> <<>>,
             wrote |-> {}]

Sessions == 1..Len(sessions)
\* The sessions that are not bound to a transaction handle.  A transaction
\* handle is used for statements, Commit and Rollback only.
Plain == {s \in Sessions : sessions[s].tx = Nil}

\* Statements, with and without an explicit transaction.
Next ==
  \/ \E s \in Plain : Call_Setup(s)
  \/ \E s \in Sessions : Call_Transaction(s)
  \/ \E s \in Sessions : Call_TxCommit(s)
  \/ \E s \in Sessions : Call_TxRollback(s)
  \/ \E s \in Sessions : Call_doExec(s)
  \/ \E s \in Sessions : Call_doQuery(s)
  \/ \E s \in Sessions : Call_doQueryRow(s)

Spec == Init /\ [][Next]_vars

\* The life cycle of sessions and their connection handles.
NextLife ==
  \/ \E s \in Sessions : Call_Setup(s)
  \/ \E s \in Sessions : Call_Open(s)
  \/ \E s \in Sessions : Call_Use(s)
  \/ \E s \in Sessions : Call_Close(s)
  \/ \E s \in Sessions : Call_doExec(s)
  \/ \E s \in Sessions : Call_doQuery(s)
  \/ \E s \in Sessions : Call_doQueryRow(s)

SpecLife == Init /\ [][NextLife]_vars

\* Collection resolution, on plain sessions and on transaction handles.
NextColl ==
  \/ \E s \in Plain : Call_Setup(s)
  \/ \E s \in Sessions : Call_Transaction(s)
  \/ \E s \in Sessions : Call_TxRollback(s)
  \/ \E s \in Sessions : Call_Collection(s)

SpecColl == Init /\ [][NextColl]_vars

\* The text of a statement, through each of the primitives.
Text(op, stmt, query) == [op |-> op, s |-> 1, stmt |-> stmt, args |-> Args(stmt), query |-> query]

InitText ==
  /\ sessions = <<Source>>
  /\ conns = <<>>
  /\ txs = <<>>
  /\ store = [d \in DBNames |-> {}]
  /\ nrows = 0
  /\ lost = {}
  /\ last \in {Text("stmt", stmt, <<>>) : stmt \in Statements}

Text_doExec ==
  /\ last.op = "stmt"
  /\ last' = Text("doExec", last.stmt, doExecQuery(last.stmt, last.args))
  /\ UNCHANGED <<sessions, conns, txs, store, nrows, lost>>

Text_doQuery ==
  /\ last.op = "stmt"
  /\ last' = Text("doQuery", last.stmt, doQueryQuery(last.stmt, last.args))
  /\ UNCHANGED <<sessions, conns, txs, store, nrows, lost>>

Text_doQueryRow ==
  /\ last.op = "stmt"
  /\ last' = Text("doQueryRow", last.stmt, doQueryRowQuery(last.stmt, last.args))
  /\ UNCHANGED <<sessions, conns, txs, store, nrows, lost>>

NextText == Text_doExec \/ Text_doQuery \/ Text_doQueryRow

SpecText == InitText /\ [][NextText]_vars

\* Type resolution: the rows of a column query, and the ColumnTypes built
\* from them.
UpperChar(c) ==
  IF \E i \in 1..26 : Lower[i] = c THEN Upper[CHOOSE i \in 1..26 : Lower[i] = c] ELSE c
\* The spellings of a lower-case string in upper and lower case.
Casings(n) ==
  {[i \in 1..Len(n) |-> IF i \in U THEN UpperChar(n[i]) ELSE n[i]] : U \in SUBSET (1..Len(n))}
TypeNames ==
  {<<"i", "n", "t">>, <<"i", "n", "t", "8">>, <<"i", "n", "t", "1", "6">>,
   <<"i", "n", "t", "3", "2">>, <<"r", "u", "n", "e">>, <<"i", "n", "t", "6", "4">>,
   <<"u", "i", "n", "t">>, <<"u", "i", "n", "t", "8">>, <<"u", "i", "n", "t", "1", "6">>,
   <<"u", "i", "n", "t", "3", "2">>, <<"u", "i", "n", "t", "6", "4">>,
   <<"f", "l", "o", "a", "t", "6", "4">>, <<"f", "l", "o", "a", "t", "3", "2">>,
   <<"t", "i", "m", "e">>, <<"s", "t", "r", "i", "n", "g">>, <<"b", "o", "o", "l">>,
   <<"b", "l", "o", "b">>, <<>>, <<"f", "l", "o", "a", "t">>,
   <<"b", "i", "g", "i", "n", "t">>, <<"d", "u", "r", "a", "t", "i", "o", "n">>}
TypeStrings == UNION {Casings(n) : n \in TypeNames}
ColumnNames == Casings(<<"i", "d">>) \cup Casings(<<"a", "b">>)
FewTypes == {<<"i", "n", "t">>, <<"S", "T", "R", "I", "N", "G">>, <<"T", "i", "m", "e">>}
ColumnRows ==
  {<<[name |-> <<"i", "d">>, type |-> t]>> : t \in TypeStrings}
    \cup UNION {[1..n -> [name : ColumnNames, type : FewTypes]] : n \in 0..MaxColumns}

InitTypes ==
  /\ sessions = <<Source>>
  /\ conns = <<>>
  /\ txs = <<>>
  /\ store = [d \in DBNames |-> {}]
  /\ nrows = 0
  /\ lost = {}
  /\ last \in {[op |-> "rows", s |-> 1, columns |-> cs] : cs \in ColumnRows}

Resolve ==
  /\ last.op = "rows"
  /\ last' = [op |-> "ColumnTypes", s |-> 1, columns |-> last.columns,
              types |-> ColumnTypes(last.columns)]
  /\ UNCHANGED <<sessions, conns, txs, store, nrows, lost>>

NextTypes == Resolve

SpecTypes == InitTypes /\ [][NextTypes]_vars

\* The calls that obtain row cursors, on a session without a transaction.
NextCursor ==
  \/ \E s \in Plain : Call_Setup(s)
  \/ \E s \in Sessions : Call_doExec(s)
  \/ \E s \in Sessions : Call_doQuery(s)
  \/ \E s \in Sessions : Call_Drop(s)
  \/ \E s \in Sessions : Call_Collections(s)
  \/ \E s \in Sessions : Call_tableExists(s)

SpecCursor == Init /\ [][NextCursor]_vars

\* The primitives with the debug flag set or not, anew at each call.
NextDebug ==
  \/ \E s \in Plain : Call_Setup(s)
  \/ \E s \in Sessions : Call_Transaction(s)
  \/ \E s \in Sessions : Debug_doExec(s)
  \/ \E s \in Sessions : Debug_doQuery(s)
  \/ \E s \in Sessions : Debug_doQueryRow(s)

SpecDebug == Init /\ [][NextDebug]_vars

\* Cloning of sessions and of transaction handles.
NextClone ==
  \/ \E s \in Plain : Call_Setup(s)
  \/ \E s \in Sessions : Call_Clone(s)
  \/ \E s \in Sessions : Call_Transaction(s)
  \/ \E s \in Sessions : Call_TxRollback(s)

SpecClone == Init /\ [][NextClone]_vars

(* ------------------------------ properties ----------------------------- *)
Prims == {"doExec", "doQuery", "doQueryRow"}
\* The session of the latest call; the primitives leave it as it was.
Self == sessions[last.s]
\* The latest call was a primitive that took the implicit-transaction path.
Auto == last.op \in Prims /\ Self.session # Nil /\ Self.tx = Nil
Did(op) == {i \in 1..Len(last.io) : last.io[i].op = op}
Failed(op) == {i \in Did(op) : ~last.io[i].ok}
\* What a read on session s returns now.
Visible(s) == doQuery(World, sessions[s], Select, AllOk).rows
Stored == UNION {store[d] : d \in DBNames}

\* C1: a doExec on a session with no active transaction either returns a
\* result with its row committed, or returns an error with no result and its
\* row visible to no read on any session, now or later.
ExecAtomic ==
  /\ \A s \in Sessions : lost \cap (Visible(s) \cup Stored) = {}
  /\ (last.op = "doExec" /\ Self.tx = Nil) =>
       \/ /\ last.err = "nil" /\ last.res = "Result"
          /\ last.wrote # {} /\ last.wrote \subseteq store[conns[Self.session].db]
       \/ /\ last.err # "nil" /\ last.res = "nil"
          /\ \A s \in Sessions : last.wrote \cap (Visible(s) \cup Stored) = {}

\* A doExec succeeded after an earlier one lost its row to a failed commit.
ExecAtomicWitness ==
  /\ last.op = "doExec" /\ Self.tx = Nil /\ last.err = "nil"
  /\ lost # {}

\* C2: on a session with no active transaction, a primitive whose statement
\* fails inside the implicit transaction returns that error and attempts no
\* commit; the same for doExec, doQuery and doQueryRow.
StmtFailureNoCommit ==
  (Auto /\ Failed("stmt") # {}) => (last.err = "ErrStmt" /\ Did("commit") = {})

\* C3: on a session with no active transaction, when the statement succeeds
\* and the commit fails, doExec and doQuery return the commit's error and no
\* result; a result never comes with a failed commit.
CommitFailureDiscards ==
  (Auto /\ last.op \in {"doExec", "doQuery"}) =>
     /\ Failed("commit") # {} => (last.err = "ErrCommit" /\ last.res = "nil")
     /\ last.res # "nil" => (last.err = "nil" /\ Did("commit") # {} /\ Failed("commit") = {})

\* A doQuery whose statement succeeded and whose commit failed.
CommitFailureWitness ==
  /\ Auto /\ last.op = "doQuery"
  /\ Did("stmt") # {} /\ Failed("stmt") = {} /\ Failed("commit") # {}

\* C4: a primitive on a session with an active transaction runs one
\* statement on that transaction and nothing else: no begin, commit or
\* rollback, the session and its transaction handle as before, the
\* transaction still in the state it was in, its writes kept and a
\* successful insert added to them, nothing stored.
TxFrame ==
  [][\A s \in Sessions :
       (last'.op \in Prims /\ last'.s = s /\ sessions[s].tx # Nil) =>
          LET t == sessions[s].tx IN
          /\ sessions' = sessions
          /\ Len(last'.io) = 1 /\ last'.io[1].op = "stmt" /\ last'.io[1].tx = t
          /\ Len(txs') = Len(txs)
          /\ txs'[t].status = txs[t].status /\ txs'[t].conn = txs[t].conn
          /\ txs[t].writes \subseteq txs'[t].writes
          /\ (last'.op = "doExec" /\ last'.err = "nil") =>
                (last'.wrote # {} /\ txs'[t].writes = txs[t].writes \cup last'.wrote)
          /\ store' = store]_vars

\* Two inserts have accumulated in a transaction that is still open.
TxFrameWitness ==
  /\ last.op = "doExec" /\ Self.tx # Nil /\ last.err = "nil"
  /\ txs[Self.tx].status = "open" /\ Cardinality(txs[Self.tx].writes) = 2

\* C5: a primitive on a session without an open connection (never opened,
\* open failed, or closed) returns ErrNotConnected and does no I/O.
NotConnectedNoIO ==
  (last.op \in Prims /\ (Self.session = Nil \/ conns[Self.session].closed)) =>
     (last.err = "ErrNotConnected" /\ last.io = <<>>)

\* C6: Transaction leaves every existing session as it was; the handle it
\* returns is a new session on a newly opened connection of its own, with an
\* open transaction begun on that connection.  A primitive on a session
\* without a transaction works on that session's connection only, in a
\* transaction begun by the call itself and bound to no session.
TxIsolated ==
  [][/\ last'.op = "Transaction" =>
          /\ \A s \in Sessions : sessions'[s] = sessions[s]
          /\ last'.res # "Tx" => sessions' = sessions
          /\ last'.res = "Tx" =>
                LET k == Len(sessions') IN
                /\ k = Len(sessions) + 1
                /\ sessions'[k].session > Len(conns)
                /\ sessions'[k].tx > Len(txs)
                /\ txs'[sessions'[k].tx].conn = sessions'[k].session
                /\ txs'[sessions'[k].tx].status = "open"
     /\ (last'.op \in Prims /\ sessions'[last'.s].tx = Nil) =>
          \A i \in 1..Len(last'.io) :
             /\ last'.io[i].conn = sessions'[last'.s].session
             /\ last'.io[i].tx # Nil =>
                  (last'.io[i].tx > Len(txs) /\ ~Referenced(sessions', last'.io[i].tx))]_vars

\* An insert on the original session committed while the clone's
\* transaction was open with a pending write.
TxIsolatedWitness ==
  /\ last.op = "doExec" /\ Self.tx = Nil /\ last.err = "nil"
  /\ \E k \in Sessions :
       /\ sessions[k].tx # Nil
       /\ txs[sessions[k].tx].status = "open"
       /\ txs[sessions[k].tx].writes # {}

\* C7: once the transaction of a transaction handle is rolled back, no row
\* inserted through that handle is stored or visible to a read on any session.
RolledBackInvisible ==
  \A k \in Sessions :
     (sessions[k].tx # Nil /\ txs[sessions[k].tx].status = "rolledback") =>
        \A s \in Sessions : \A r \in Visible(s) \cup Stored : r[1] # k

\* A transaction with two inserts was rolled back.
RolledBackWitness ==
  \E k \in Sessions :
     /\ sessions[k].tx # Nil
     /\ txs[sessions[k].tx].status = "rolledback"
     /\ Cardinality(txs[sessions[k].tx].writes) = 2

\* C8: Collection returns ErrCollectionDoesNotExists only when the existence
\* query ran without error; when the query fails, its error is returned.
DoesNotExistOnlyWhenAbsent ==
  last.op = "Collection" =>
     /\ last.err = "ErrCollectionDoesNotExists" =>
          (last.cat # <<>> /\ last.cat[Len(last.cat)].err = "nil")
     /\ \A i \in 1..Len(last.cat) : last.cat[i].err # "nil" => last.err = last.cat[i].err

\* The requested names that are not in the catalog.
Missing == {i \in 1..Len(last.args) : FirstChunk(last.args[i]) \notin CatalogTables}
\* Every engine operation of the latest call succeeded.
Healthy == last.io # <<>> /\ \A i \in 1..Len(last.io) : last.io[i].ok
\* A column query comes right after a successful existence query for the
\* same name.
ExistenceFirst ==
  \A i \in 1..Len(last.cat) :
     last.cat[i].q = "columns" =>
        /\ i > 1
        /\ last.cat[i - 1] = Query("exists", last.cat[i].name, "nil")
        /\ last.cat[i].name \in CatalogTables

\* C9 as claimed: with a healthy connection and a requested name that is not
\* in the catalog, Collection returns ErrCollectionDoesNotExists having
\* issued the existence check and no other catalog query.
FailFastOneQuery ==
  last.op = "Collection" =>
     /\ ExistenceFirst
     /\ (Healthy /\ Missing # {}) =>
          /\ last.err = "ErrCollectionDoesNotExists"
          /\ Len(last.cat) = 1 /\ last.cat[1].q = "exists"

\* C9 amended: the existence query of a name comes before its column query;
\* with a healthy connection and the rows of the names before it decoded,
\* the first requested name that is not in the catalog makes Collection
\* return ErrCollectionDoesNotExists after its existence check, with no
\* column query for it and no query for the names after it; the names before
\* it have had their existence and column queries.
FailFast ==
  last.op = "Collection" =>
     /\ ExistenceFirst
     /\ (Healthy /\ Missing # {} /\ last.err # "ErrFetchRows") =>
          LET m == CHOOSE i \in Missing : \A j \in Missing : i <= j IN
          /\ last.err = "ErrCollectionDoesNotExists"
          /\ Len(last.cat) = 2 * m - 1
          /\ last.cat[2 * m - 1] = Query("exists", FirstChunk(last.args[m]), "nil")
          /\ \A j \in 1..(m - 1) :
               /\ last.cat[2 * j - 1] = Query("exists", FirstChunk(last.args[j]), "nil")
               /\ last.cat[2 * j] = Query("columns", FirstChunk(last.args[j]), "nil")

\* Collection of a name that exists followed by one that does not.
FailFastWitness ==
  /\ last.op = "Collection" /\ Healthy
  /\ Len(last.args) = 2 /\ Missing = {2}
  /\ last.err = "ErrCollectionDoesNotExists"

\* C10: on a session with no active transaction, a primitive whose begin
\* fails returns the begin error and does nothing more: no statement, no
\* commit, no rollback, nothing written.
BeginFailureStops ==
  (Auto /\ Failed("begin") # {}) =>
     /\ last.err = "ErrBegin" /\ last.res = "nil"
     /\ Len(last.io) = 1 /\ last.wrote = {}

\* The begin of a doQueryRow failed.
BeginFailureWitness == Auto /\ last.op = "doQueryRow" /\ Failed("begin") # {}

\* C11: a clone that succeeds adds one session and leaves every existing
\* session, the original included, as it was; the new session has the
\* original's configuration, a handle opened during the call on that
\* database, and no transaction, whether or not the original has one.
CloneIndependent ==
  [][(last'.op = "Clone" /\ last'.res = "Source") =>
       LET k == Len(sessions') IN
       /\ k = Len(sessions) + 1
       /\ \A s \in Sessions : sessions'[s] = sessions[s]
       /\ sessions'[k].config = sessions[last'.s].config
       /\ sessions'[k].session > Len(conns)
       /\ sessions'[k].session # sessions[last'.s].session
       /\ ~conns'[sessions'[k].session].closed
       /\ conns'[sessions'[k].session].db = sessions[last'.s].config
       /\ sessions'[k].tx = Nil
       /\ txs' = txs]_vars

\* A session with an open transaction was cloned.
CloneIndependentWitness ==
  /\ last.op = "Clone" /\ last.res = "Source"
  /\ Self.tx # Nil /\ txs[Self.tx].status = "open"
  /\ sessions[Len(sessions)].tx = Nil

\* C12: Close leaves the session record as it is.  On a session with no
\* connection handle it returns no error and changes nothing.  A Close that
\* follows a Close of the same session returns no error and changes nothing.
CloseIdempotent ==
  [][last'.op = "Close" =>
       /\ sessions' = sessions
       /\ sessions[last'.s].session = Nil =>
            (last'.err = "nil" /\ last'.io = <<>> /\ conns' = conns /\ txs' = txs
             /\ store' = store)
       /\ (last.op = "Close" /\ last.s = last'.s) =>
            (last'.err = "nil" /\ conns' = conns /\ txs' = txs /\ store' = store)]_vars

\* A Close found the session's handle closed already.
CloseIdempotentWitness ==
  /\ last.op = "Close" /\ Self.session # Nil
  /\ last.io = <<Ev("closed", TRUE, Nil, Self.session)>>

\* C19: a session's connection handle was opened for the database name the
\* session is configured with, and an Open or Use that returns an error
\* leaves the session's configuration and handle as they were.
ConfigMatchesSession ==
  [][/\ \A s \in 1..Len(sessions') :
          sessions'[s].session # Nil => conns'[sessions'[s].session].db = sessions'[s].config
     /\ (last'.op \in {"Open", "Use"} /\ last'.err # "nil") =>
          sessions'[last'.s] = sessions[last'.s]]_vars

\* The number that the digits ds spell, and the numbers of the "$" tokens of
\* a text, from left to right.
RECURSIVE Atoi(_, _)
Atoi(ds, n) ==
  IF ds = <<>> THEN n
  ELSE Atoi(Tail(ds), 10 * n + (CHOOSE d \in 0..9 : Digits[d + 1] = Head(ds)))
IsDigit(c) == \E d \in 1..10 : Digits[d] = c
DigitRun(text, i) ==
  SubSeq(text, i, CHOOSE j \in (i - 1)..Len(text) :
                     /\ \A k \in i..j : IsDigit(text[k])
                     /\ (j = Len(text) \/ ~IsDigit(text[j + 1])))
Tokens(text) ==
  [k \in 1..Cardinality({i \in 1..Len(text) : text[i] = "$"}) |->
     Atoi(DigitRun(text, 1 + CHOOSE i \in 1..Len(text) :
                              /\ text[i] = "$"
                              /\ Cardinality({j \in 1..i : text[j] = "$"}) = k), 0)]
\* The text with every token put back to "?".
RECURSIVE Neutral(_)
Neutral(text) ==
  IF text = <<>> THEN <<>>
  ELSE IF Head(text) = "$" THEN <<"?">> \o Neutral(Tail(text))
  ELSE IF IsDigit(Head(text)) THEN Neutral(Tail(text))
  ELSE <<Head(text)>> \o Neutral(Tail(text))

\* C13: the text a primitive passes on for a statement with N bound values
\* has the tokens $1..$N, in this order from left to right, one where each
\* placeholder was, and no "?"; doExec, doQuery and doQueryRow give the same
\* text.
Renumbered ==
  last.op \in Prims =>
     /\ Tokens(last.query) = [k \in 1..Len(last.args) |-> k]
     /\ \A i \in 1..Len(last.query) : last.query[i] # "?"
     /\ Neutral(last.query) = Compile(last.stmt)
     /\ doExecQuery(last.stmt, last.args) = last.query
     /\ doQueryQuery(last.stmt, last.args) = last.query
     /\ doQueryRowQuery(last.stmt, last.args) = last.query

\* A statement with ten bound values went through doQueryRow.
RenumberedWitness ==
  /\ last.op = "doQueryRow" /\ Len(last.args) = 10
  /\ Tokens(last.query)[10] = 10

\* The recognised type names with their kinds, as listed.
ListedKinds ==
  {[name |-> <<"i", "n", "t">>, kind |-> "Int"],
   [name |-> <<"i", "n", "t", "8">>, kind |-> "Int8"],
   [name |-> <<"i", "n", "t", "1", "6">>, kind |-> "Int16"],
   [name |-> <<"i", "n", "t", "3", "2">>, kind |-> "Int32"],
   [name |-> <<"i", "n", "t", "6", "4">>, kind |-> "Int64"],
   [name |-> <<"u", "i", "n", "t">>, kind |-> "Uint"],
   [name |-> <<"u", "i", "n", "t", "8">>, kind |-> "Uint8"],
   [name |-> <<"u", "i", "n", "t", "1", "6">>, kind |-> "Uint16"],
   [name |-> <<"u", "i", "n", "t", "3", "2">>, kind |-> "Uint32"],
   [name |-> <<"u", "i", "n", "t", "6", "4">>, kind |-> "Uint64"],
   [name |-> <<"f", "l", "o", "a", "t", "3", "2">>, kind |-> "Float32"],
   [name |-> <<"f", "l", "o", "a", "t", "6", "4">>, kind |-> "Float64"],
   [name |-> <<"t", "i", "m", "e">>, kind |-> "Struct"]}
KindIn(table, dtype) ==
  IF \E e \in table : e.name = dtype THEN (CHOOSE e \in table : e.name = dtype).kind
  ELSE "String"
\* The columns of the rows that no later row overwrites.
Final == {i \in 1..Len(last.columns) :
            \A j \in (i + 1)..Len(last.columns) :
               ToLower(last.columns[j].name) # ToLower(last.columns[i].name)}

\* C14 as claimed: every column gets a kind; after lower-casing, a listed
\* type name gives its kind and every other string gives String.
TypesAsListed ==
  last.op = "ColumnTypes" =>
     \A i \in Final :
        /\ ToLower(last.columns[i].name) \in DOMAIN last.types
        /\ last.types[ToLower(last.columns[i].name)]
             = KindIn(ListedKinds, ToLower(last.columns[i].type))

\* C14 amended: every column gets a kind; after lower-casing, a listed type
\* name gives its kind, rune gives Int32 and every other string gives String.
TypesTotal ==
  last.op = "ColumnTypes" =>
     \A i \in Final :
        /\ ToLower(last.columns[i].name) \in DOMAIN last.types
        /\ last.types[ToLower(last.columns[i].name)]
             = KindIn(ListedKinds \cup {[name |-> <<"r", "u", "n", "e">>, kind |-> "Int32"]},
                      ToLower(last.columns[i].type))

\* A column of type rune, spelled in mixed case, was resolved.
TypesTotalWitness ==
  /\ last.op = "ColumnTypes" /\ Len(last.columns) = 1
  /\ last.columns[1].type = <<"R", "u", "n", "e">>
  /\ last.types[last.columns[1].name] = "Int32"

\* C15: every key of ColumnTypes is lower-case, and a lookup by any spelling
\* of a column's name in upper and lower case finds the kind that the lookup
\* by the catalog's spelling finds.
CaseInsensitive ==
  last.op = "ColumnTypes" =>
     /\ \A k \in DOMAIN last.types : ToLower(k) = k
     /\ \A i \in 1..Len(last.columns) :
          \A n \in Casings(ToLower(last.columns[i].name)) :
             /\ ToLower(n) \in DOMAIN last.types
             /\ Lookup(last.types, n) = Lookup(last.types, last.columns[i].name)
             /\ i \in Final => Lookup(last.types, n) = Kind(ToLower(last.columns[i].type))

\* Two columns whose names differ in case only, with different types.
CaseInsensitiveWitness ==
  /\ last.op = "ColumnTypes" /\ Len(last.columns) = 2
  /\ last.columns[1].name # last.columns[2].name
  /\ ToLower(last.columns[1].name) = ToLower(last.columns[2].name)
  /\ ToLower(last.columns[1].type) # ToLower(last.columns[2].type)

\* C16: no connection has an open transaction left behind by a call: the
\* transaction a primitive began is committed or rolled back when it returns.
NoImplicitTxLeft ==
  /\ \A c \in 1..Len(conns) : conns[c].leaked = 0
  /\ (Auto /\ Failed("stmt") # {}) => (Did("commit") # {} \/ Did("rollback") # {})

\* C18: every connection handle opened during a clone or a Transaction is,
\* when the call returns, the handle of the session it returns or closed.
NoOrphanHandles ==
  [][last'.op \in {"Clone", "Transaction"} =>
       \A c \in (Len(conns) + 1)..Len(conns') :
          \/ conns'[c].closed
          \/ last'.res # "nil" /\ sessions'[Len(sessions')].session = c]_vars

\* The cursors the latest call obtained: one for each query that succeeded.
Obtained == Cardinality(Did("stmt") \ Failed("stmt"))

\* C17: every cursor a call obtains is handed to the caller or closed when
\* the call returns: doQuery hands its cursor over; Drop, Collections and
\* tableExists close theirs.
CursorsReleased ==
  /\ last.op = "doQuery" => Obtained = (IF last.res = "Rows" THEN 1 ELSE 0)
  /\ last.op \in {"Drop", "Collections", "tableExists"} => Obtained = last.closed

\* What a call did and returned, the reports to the debug hook left out.
Quiet(R) == [R EXCEPT !.io = SelectSeq(@, LAMBDA e : e.op # "debug")]
Flagged(o) == [o EXCEPT !.env = "1"]

\* C20: in every state, each primitive run with the debug flag set does on
\* the engine, returns and leaves behind what it does with the flag not set;
\* the only difference is the report, and a call that reports does so once,
\* before its begin or statement.
DebugObservational ==
  /\ \A s \in Sessions : \A o \in Outcomes :
        /\ Quiet(doExec(World, sessions[s], Insert(s), Flagged(o)))
             = doExec(World, sessions[s], Insert(s), o)
        /\ Quiet(doQuery(World, sessions[s], Select, Flagged(o)))
             = doQuery(World, sessions[s], Select, o)
        /\ Quiet(doQueryRow(World, sessions[s], Select, Flagged(o)))
             = doQueryRow(World, sessions[s], Select, o)
  /\ last.op \in Prims => \A i \in Did("debug") : i = 1

\* An insert was reported to the debug hook, then committed.
DebugObservationalWitness ==
  /\ last.op = "doExec" /\ last.err = "nil" /\ last.wrote # {}
  /\ Did("debug") = {1} /\ Did("commit") = {4}
====
